---- MODULE Spec2Model ----
(***************************************************************************)
(* ShoreSquad front-end (src/unnamed/part_000): application state,         *)
(* bootstrap sequence, preference store, weather gateway, location         *)
(* service, marker renderer and the pure helpers isValidEmail/formatDate.  *)
(*                                                                         *)
(* Conventions                                                             *)
(*  - JavaScript null / undefined are the records Null / Undefined.        *)
(*  - A JavaScript string that the code inspects character by character    *)
(*    is a sequence of one-character strings; message texts that are only  *)
(*    compared are TLA+ strings (emoji prefixes are left out: the module   *)
(*    is ASCII).                                                           *)
(*  - Temperatures are integers in tenths of a degree.                     *)
(*  - The elements cached in DOM (part_000:27-40) exist in the page.       *)
(***************************************************************************)
EXTENDS Integers, Sequences, FiniteSets, TLC

VARIABLES
    storage,        \* localStorage value under 'appPreferences'
    appState,       \* the appState object
    bootStatus,     \* initializeApp: notStarted, returned or threw
    bootSteps,      \* calls of initializeApp that returned, in order
    markers,        \* children of DOM.mapMarkers (event ids)
    weatherDisplay, \* content of DOM.weatherDisplay
    forecastGrid,   \* content of DOM.forecastGrid
    shown,          \* notifications inserted by the handler that ran last
    lastHandler,    \* the handler that ran last, with its input
    lwPc,           \* position of the startup loadWeatherData
    refreshes,      \* fetchWeatherForLocation calls with a request in flight
    locPending,     \* getCurrentPosition requests in flight
    unhandled,      \* functions an exception or rejection escaped from, unhandled
    now,            \* current instant, minutes since the epoch (UTC)
    tz,             \* local time zone offset from UTC, minutes
    geolocation,    \* navigator.geolocation is present
    requests,       \* requests and fallbacks of the startup loadWeatherData so far
    toasts,         \* notification elements in document.body, in order
    timers,         \* pending setTimeout callbacks of the notifications
    elapsed,        \* per notification: time since its insertion
    removals,       \* per notification: times it left the document
    form,           \* values of the signup form's inputs
    nav,            \* class lists of the navigation menu and of its toggle button
    emailInput,     \* argument of the last isValidEmail call
    emailResult,    \* its result
    dateInput,      \* argument of the last formatDate call
    dateResult      \* its result

vars == <<storage, appState, bootStatus, bootSteps, markers, weatherDisplay,
          forecastGrid, shown, lastHandler, lwPc, refreshes, locPending,
          unhandled, now, tz, geolocation, requests, toasts, timers, elapsed,
          removals, form, nav, emailInput, emailResult, dateInput, dateResult>>

appVars == <<storage, appState, bootStatus, bootSteps, markers, weatherDisplay,
             forecastGrid, shown, lastHandler, lwPc, refreshes, locPending,
             unhandled, now, tz, geolocation, requests, toasts, timers, elapsed,
             removals, form, nav>>

toastVars == <<toasts, timers, elapsed, removals>>

pureVars == <<emailInput, emailResult, dateInput, dateResult>>

----------------------------------------------------------------------------
(* Bounds *)

MaxLocate == 1
MaxEmailLen == 5

----------------------------------------------------------------------------
(* JavaScript values *)

Null == [t |-> "null"]

Undefined == [t |-> "undefined"]

Str(s) == [t |-> "string", s |-> s]

NaN == -1000000

Last(s) == s[Len(s)]

----------------------------------------------------------------------------
(* Preference store *)

DefaultPreferences == [units |-> "metric", notifications |-> TRUE, darkMode |-> FALSE]

PrefKeys == {"units", "notifications", "darkMode"}

PrefKeyOrder == <<"units", "notifications", "darkMode">>

\* A JSON text is kept as its token structure: an object text is the
\* sequence of its members <<key, value>> in textual order.
ObjectText(members) == [t |-> "string", json |-> "object", members |-> members]

MalformedText == [t |-> "string", json |-> "malformed"]

EmptyText == [t |-> "string", json |-> "empty"]

NullText == [t |-> "string", json |-> "null"]

SyntaxError == [t |-> "error", name |-> "SyntaxError"]

\* Members of an object text as the object JSON.parse builds: a later
\* member with the same key replaces an earlier one.
RECURSIVE MembersToObject(_)
MembersToObject(members) ==
    IF members = <<>> THEN <<>>
    ELSE LET rest == MembersToObject(SubSeq(members, 1, Len(members) - 1))
             m == Last(members)
         IN [k \in (DOMAIN rest) \cup {m[1]} |-> IF k = m[1] THEN m[2] ELSE rest[k]]

\* JSON.parse: the parsed value, or the SyntaxError it throws.
JSONparse(text) ==
    CASE text.json = "object" -> [threw |-> FALSE, value |-> MembersToObject(text.members)]
      [] text.json = "null" -> [threw |-> FALSE, value |-> Null]
      [] OTHER -> [threw |-> TRUE, value |-> SyntaxError]

\* Faulty variant: members whose value is false are left out of the text
StringifyKeysSkipFalse(obj, keys) ==
    LET kept == SelectSeq(keys, LAMBDA k : k \in DOMAIN obj /\ (k = "units" \/ obj[k]))
    IN [i \in 1..Len(kept) |-> <<kept[i], obj[kept[i]]>>]

\* JSON.stringify of a preferences object: its own keys in insertion order.
RECURSIVE StringifyKeys(_, _)
StringifyKeys(obj, keys) ==
    IF keys = <<>> THEN <<>>
    ELSE (IF Head(keys) \in DOMAIN obj THEN << <<Head(keys), obj[Head(keys)]>> >> ELSE <<>>)
         \o StringifyKeys(obj, Tail(keys))

JSONstringify(obj) == ObjectText(StringifyKeys(obj, PrefKeyOrder))

\* Faulty variant: the spread the wrong way round, the first operand's fields win
SpreadFirstWins(a, b) ==
    IF DOMAIN b = DOMAIN Null THEN a
    ELSE [k \in (DOMAIN a) \cup (DOMAIN b) |-> IF k \in DOMAIN a THEN a[k] ELSE b[k]]

\* { ...a, ...b }: spreading null copies nothing.
Spread(a, b) ==
    IF DOMAIN b = DOMAIN Null THEN a
    ELSE [k \in (DOMAIN a) \cup (DOMAIN b) |-> IF k \in DOMAIN b THEN b[k] ELSE a[k]]

\* localStorage.getItem result is truthy
Truthy(saved) == saved # Null /\ saved # EmptyText

\* loadUserPreferences: the preferences after the call, or the exception
\* that leaves it.
loadUserPreferences(saved, prefs) ==
    IF Truthy(saved)
    THEN LET parsed == JSONparse(saved)
         IN IF parsed.threw
            THEN [threw |-> TRUE, prefs |-> prefs]
            ELSE [threw |-> FALSE, prefs |-> Spread(prefs, parsed.value)]
    ELSE [threw |-> FALSE, prefs |-> prefs]

\* Faulty variant: only the unit system is written
saveUserPreferencesUnitsOnly(prefs) == JSONstringify([units |-> prefs.units])

saveUserPreferences(prefs) == JSONstringify(prefs)

----------------------------------------------------------------------------
(* Date: the platform's calendar arithmetic (proleptic Gregorian, time     *)
(* value in minutes since 1970-01-01T00:00Z, fixed zone offset)            *)

MinutesPerDay == 1440

Digits == <<"0", "1", "2", "3", "4", "5", "6", "7", "8", "9">>

DigitValue(c) == CHOOSE v \in 0..9 : Digits[v + 1] = c

\* Number of a digit string
RECURSIVE ParseInt(_)
ParseInt(cs) ==
    IF cs = <<>> THEN 0
    ELSE 10 * ParseInt(SubSeq(cs, 1, Len(cs) - 1)) + DigitValue(Last(cs))

\* String(n) for a non-negative integer: no leading zeros
RECURSIVE NumberToString(_)
NumberToString(n) ==
    IF n < 10 THEN <<Digits[n + 1]>>
    ELSE NumberToString(n \div 10) \o <<Digits[(n % 10) + 1]>>

\* padStart(width, '0')
RECURSIVE PadStart(_, _)
PadStart(cs, width) == IF Len(cs) >= width THEN cs ELSE PadStart(<<"0">> \o cs, width)

\* Day number (days since 1970-01-01) of a calendar date
DaysFromCivil(y, m, d) ==
    LET yy == IF m <= 2 THEN y - 1 ELSE y
        era == yy \div 400
        yoe == yy - era * 400
        mp == IF m > 2 THEN m - 3 ELSE m + 9
        doy == (153 * mp + 2) \div 5 + d - 1
        doe == yoe * 365 + yoe \div 4 - yoe \div 100 + doy
    IN era * 146097 + doe - 719468

\* Calendar date of a day number
CivilFromDays(z) ==
    LET zz == z + 719468
        era == zz \div 146097
        doe == zz - era * 146097
        yoe == (doe - doe \div 1460 + doe \div 36524 - doe \div 146096) \div 365
        doy == doe - (365 * yoe + yoe \div 4 - yoe \div 100)
        mp == (5 * doy + 2) \div 153
        d == doy - (153 * mp + 2) \div 5 + 1
        m == IF mp < 10 THEN mp + 3 ELSE mp - 9
    IN [year |-> IF m <= 2 THEN yoe + era * 400 + 1 ELSE yoe + era * 400,
        month |-> m, day |-> d]

\* Day of the week of a day number, 0 = Sunday (1970-01-01 was a Thursday)
WeekDay(z) == (z + 4) % 7

\* Local day number of a time value
LocalDay(t, zone) == (t + zone) \div MinutesPerDay

\* Date.prototype.getDay / getDate / getMonth: fields of the local date
getDay(t, zone) == WeekDay(LocalDay(t, zone))

getDate(t, zone) == CivilFromDays(LocalDay(t, zone)).day

getMonth(t, zone) == CivilFromDays(LocalDay(t, zone)).month - 1

\* Faulty variant: the string read as UTC midnight, as the date-only form is
ParseUtcMidnight(cs, zone) ==
    DaysFromCivil(ParseInt(SubSeq(cs, 1, 4)), ParseInt(SubSeq(cs, 6, 7)),
                  ParseInt(SubSeq(cs, 9, 10))) * MinutesPerDay

\* new Date('YYYY-MM-DDT00:00:00'): a date-time form without offset is
\* local time, so the time value is local midnight of that date.
ParseLocalMidnight(cs, zone) ==
    DaysFromCivil(ParseInt(SubSeq(cs, 1, 4)), ParseInt(SubSeq(cs, 6, 7)),
                  ParseInt(SubSeq(cs, 9, 10))) * MinutesPerDay - zone

\* toISOString().split('T')[0]: the UTC date as YYYY-MM-DD
ISODate(t) ==
    LET c == CivilFromDays(t \div MinutesPerDay)
    IN PadStart(NumberToString(c.year), 4) \o <<"-">> \o PadStart(NumberToString(c.month), 2)
       \o <<"-">> \o PadStart(NumberToString(c.day), 2)

\* setDate(getDate() + n): the day of the local date is replaced, the local
\* year, month and time of day stay; a day beyond the month rolls over.
SetDatePlus(t, zone, n) ==
    LET local == t + zone
        c == CivilFromDays(local \div MinutesPerDay)
        newDay == DaysFromCivil(c.year, c.month, 1) + (c.day + n) - 1
    IN newDay * MinutesPerDay + (local % MinutesPerDay) - zone

getDateString(daysFromNow, t, zone) == ISODate(SetDatePlus(t, zone, daysFromNow))

days == <<"Sun", "Mon", "Tue", "Wed", "Thu", "Fri", "Sat">>

months == <<"Jan", "Feb", "Mar", "Apr", "May", "Jun", "Jul", "Aug", "Sep", "Oct", "Nov", "Dec">>

\* !dateStr
Falsy(v) == v = Undefined \/ v = Null \/ v = Str(<<>>)

\* formatDate as a sequence of text pieces
formatDate(dateStr, zone) ==
    IF Falsy(dateStr) THEN <<"Today">>
    ELSE LET date == ParseLocalMidnight(dateStr.s, zone)
         IN <<days[getDay(date, zone) + 1], " ">> \o NumberToString(getDate(date, zone))
            \o <<" ", months[getMonth(date, zone) + 1]>>

----------------------------------------------------------------------------
(* isValidEmail *)

Whitespace == {" ", "\t", "\n"}

\* Faulty variant: the class [^\s], which lets '@' through
NotSpace(c) == c \notin Whitespace

\* [^\s@]
NotSpaceNotAt(c) == c \notin Whitespace /\ c # "@"

AllNotSpaceNotAt(cs, from, to) == \A k \in from..to : NotSpaceNotAt(cs[k])

\* /^[^\s@]+@[^\s@]+\.[^\s@]+$/.test(email): some '@' at i and some '.' at j
\* split the whole string into three non-empty runs of [^\s@].
isValidEmail(email) ==
    \E i \in 1..Len(email) : \E j \in (i + 1)..Len(email) :
        /\ email[i] = "@"
        /\ email[j] = "."
        /\ i > 1 /\ AllNotSpaceNotAt(email, 1, i - 1)
        /\ j > i + 1 /\ AllNotSpaceNotAt(email, i + 1, j - 1)
        /\ j < Len(email) /\ AllNotSpaceNotAt(email, j + 1, Len(email))

----------------------------------------------------------------------------
(* Handler state: the part of the program state the handlers read and      *)
(* write, passed through the calls a handler makes                         *)

Current ==
    [storage |-> storage, appState |-> appState, markers |-> markers,
     weatherDisplay |-> weatherDisplay, forecastGrid |-> forecastGrid,
     shown |-> <<>>, lwPc |-> lwPc, refreshes |-> refreshes,
     locPending |-> locPending, unhandled |-> unhandled, requests |-> requests]

Commit(st, handler) ==
    /\ storage' = st.storage
    /\ appState' = st.appState
    /\ markers' = st.markers
    /\ weatherDisplay' = st.weatherDisplay
    /\ forecastGrid' = st.forecastGrid
    /\ shown' = st.shown
    /\ lwPc' = st.lwPc
    /\ refreshes' = st.refreshes
    /\ locPending' = st.locPending
    /\ unhandled' = st.unhandled
    /\ requests' = st.requests
    /\ lastHandler' = handler

----------------------------------------------------------------------------
(* Notification presenter *)

NotificationBackground(type) ==
    IF type = "error" THEN "#ff4757" ELSE IF type = "success" THEN "#06d6a0" ELSE "#00B4D8"

\* The element showNotification appends to the document body
Notification(message, args, type) ==
    [className |-> "notification notification-" \o type, message |-> message,
     args |-> args, background |-> NotificationBackground(type)]

showNotification(st, message, args, type) ==
    [st EXCEPT !.shown = Append(@, Notification(message, args, type))]

----------------------------------------------------------------------------
(* Weather display *)

\* Math.round(num / den) for den > 0: halves round up
RoundDiv(num, den) == (2 * num + den) \div (2 * den)

\* Probe words of getWeatherIcon contained in the lower-cased condition label
ConditionWords(condition) ==
    CASE condition = "Sunny" -> {"sunny"}
      [] condition = "Clear" -> {"clear"}
      [] condition = "Partly Cloudy" -> {"cloudy", "cloud"}
      [] condition = "Cloudy" -> {"cloudy", "cloud"}
      [] condition = "Thundery Showers" -> {"thunder", "shower"}
      [] condition = "Windy" -> {"wind"}
      [] OTHER -> {}

getWeatherIcon(condition) ==
    LET w == ConditionWords(condition)
    IN IF "sunny" \in w \/ "clear" \in w THEN "sun"
       ELSE IF "cloudy" \in w \/ "cloud" \in w THEN "cloud"
       ELSE IF "rain" \in w \/ "shower" \in w THEN "rain"
       ELSE IF "thunder" \in w \/ "storm" \in w THEN "thunderstorm"
       ELSE IF "wind" \in w THEN "wind"
       ELSE IF "fog" \in w \/ "haze" \in w THEN "fog"
       ELSE "sun behind cloud"

\* The weather card written into DOM.weatherDisplay
updateWeatherDisplay(st, weatherData) ==
    LET metric == st.appState.userPreferences.units = "metric"
        tempUnit == IF metric THEN "C" ELSE "F"
        speedUnit == IF metric THEN "km/h" ELSE "mph"
    IN [st EXCEPT !.weatherDisplay =
           [icon |-> getWeatherIcon(weatherData.condition),
            temp |-> IF weatherData.temperature = NaN THEN NaN
                     ELSE RoundDiv(weatherData.temperature, 10),
            tempUnit |-> tempUnit,
            condition |-> weatherData.condition,
            waves |-> weatherData.waves,
            windSpeed |-> weatherData.windSpeed,
            speedUnit |-> speedUnit,
            humidity |-> weatherData.humidity,
            uvIndex |-> weatherData.uvIndex,
            source |-> IF "source" \in DOMAIN weatherData THEN weatherData.source ELSE "NEA"]]

----------------------------------------------------------------------------
(* Forecast display *)

\* Values Math.random() returns, in hundredths
RandomSamples == {0, 99}

\* Math.round(base + Math.random() * span)
RandomRound(base, span, r) == RoundDiv(100 * base + r * span, 100)

\* Math.floor(Math.random() * 3)
RandomIndex3(r) == (r * 3) \div 100

RandomConditions == <<"Sunny", "Partly Cloudy", "Thundery Showers">>

\* day.field || fallback: a missing field and 0 are falsy
HasTruthy(day, field) == field \in DOMAIN day /\ day[field] # 0

\* One forecast card; rnd holds the values the Math.random() calls of this
\* card return.
ForecastCard(day, index, t, zone, rnd) ==
    LET date == IF "date" \in DOMAIN day /\ ~Falsy(day.date) THEN day.date
                ELSE Str(getDateString(index, t, zone))
        temp == IF HasTruthy(day, "high") THEN day.high ELSE RandomRound(25, 5, rnd.high)
        minTemp == IF HasTruthy(day, "low") THEN day.low ELSE RandomRound(20, 3, rnd.low)
        condition == IF "forecast" \in DOMAIN day THEN day.forecast
                     ELSE RandomConditions[RandomIndex3(rnd.condition) + 1]
    IN [heading |-> formatDate(date, zone), icon |-> getWeatherIcon(condition),
        temp |-> temp, condition |-> condition, low |-> minTemp,
        humidity |-> RandomRound(60, 20, rnd.humidity)]

\* forecasts.slice(0, 4)
Slice4(forecasts) == SubSeq(forecasts, 1, IF Len(forecasts) < 4 THEN Len(forecasts) ELSE 4)

\* displayForecast: forecast is Undefined, or [t |-> "array", items |-> days]
displayForecast(st, forecast, t, zone, rnd) ==
    IF forecast = Undefined \/ forecast = Null THEN st
    ELSE LET forecasts == IF forecast.t = "array" THEN forecast.items ELSE <<>>
             shownDays == Slice4(forecasts)
         IN [st EXCEPT !.forecastGrid =
                [i \in 1..Len(shownDays) |-> ForecastCard(shownDays[i], i - 1, t, zone, rnd[i])]]

\* The four draws one card may make
CardDraws == [high : RandomSamples, low : RandomSamples,
              condition : RandomSamples, humidity : RandomSamples]

\* Draws of a card that has every field but the humidity
HumidityDraws == [high : {0}, low : {0}, condition : {0}, humidity : RandomSamples]

----------------------------------------------------------------------------
(* Fallback weather *)

MockTemperature == 22

mockWeatherData ==
    [temperature |-> MockTemperature * 10, condition |-> "Sunny", waves |-> "1-1.5m",
     windSpeed |-> 13, humidity |-> 65, uvIndex |-> 7, source |-> "Mock"]

mockForecast(t, zone) ==
    [t |-> "array", items |->
        << [date |-> Str(getDateString(0, t, zone)), high |-> 32, low |-> 24, forecast |-> "Sunny"],
           [date |-> Str(getDateString(1, t, zone)), high |-> 30, low |-> 23, forecast |-> "Partly Cloudy"],
           [date |-> Str(getDateString(2, t, zone)), high |-> 28, low |-> 22, forecast |-> "Thundery Showers"],
           [date |-> Str(getDateString(3, t, zone)), high |-> 31, low |-> 24, forecast |-> "Sunny"] >>]

\* Faulty variant: the fallback record is stored but the display is not refreshed
loadMockWeatherDataNoDisplay(st, t, zone, rnd) ==
    LET s1 == showNotification(st, "Using mock weather data (API unavailable)", <<>>, "info")
        s2 == [s1 EXCEPT !.appState.weatherData = mockWeatherData]
    IN displayForecast(s2, mockForecast(t, zone), t, zone, rnd)

loadMockWeatherData(st, t, zone, rnd) ==
    LET s1 == showNotification(st, "Using mock weather data (API unavailable)", <<>>, "info")
        s2 == [s1 EXCEPT !.appState.weatherData = mockWeatherData]
        s3 == updateWeatherDisplay(s2, mockWeatherData)
    IN displayForecast(s3, mockForecast(t, zone), t, zone, rnd)

----------------------------------------------------------------------------
(* Weather gateway *)

StationLocation == [latitude |-> 137, longitude |-> 10398]

Obj == [t |-> "object"]

\* Bodies the current-conditions endpoint may answer with (parsed JSON)
CurrentBodies ==
    { Null,
      Obj,
      [t |-> "object", metadata |-> [stations |-> <<>>], items |-> <<>>],
      [t |-> "object", metadata |-> [stations |-> <<[location |-> StationLocation]>>]],
      [t |-> "object", metadata |-> [stations |-> <<Obj>>],
                       items |-> <<[readings |-> <<[value |-> 285]>>]>>],
      [t |-> "object", items |-> <<Obj>>],
      [t |-> "object", metadata |-> [stations |-> <<[location |-> StationLocation]>>],
                       items |-> <<Obj>>],
      [t |-> "object", items |-> <<[readings |-> <<>>]>>],
      [t |-> "object", items |-> <<[readings |-> <<[value |-> 266]>>]>>],
      [t |-> "object", metadata |-> [stations |-> <<[location |-> StationLocation]>>],
                       items |-> <<[readings |-> <<[value |-> 285], [value |-> 302]>>]>>] }

\* Outcomes of one request: the fetch rejects, the status is not ok, the
\* body is not JSON, or the body parses to data.
Outcomes(bodies) ==
    {[kind |-> "network"], [kind |-> "http"], [kind |-> "badjson"]}
        \cup {[kind |-> "json", data |-> d] : d \in bodies}

CurrentOutcomes == Outcomes(CurrentBodies)

RECURSIVE SumValues(_)
SumValues(readings) ==
    IF readings = <<>> THEN 0 ELSE Head(readings).value + SumValues(Tail(readings))

\* Math.round(avgTemp * 10) / 10 of the readings, in tenths; 0 / 0 is NaN
AverageTemperature(readings) ==
    IF Len(readings) = 0 THEN NaN ELSE RoundDiv(SumValues(readings), Len(readings))

neaWeatherData(readings) ==
    [temperature |-> AverageTemperature(readings), condition |-> "Partly Cloudy",
     waves |-> "0.8-1.2m", windSpeed |-> 12, humidity |-> 70, uvIndex |-> 6,
     source |-> "NEA"]

HasStations(data) ==
    "metadata" \in DOMAIN data /\ "stations" \in DOMAIN data.metadata
        /\ Len(data.metadata.stations) > 0

HasItems(data) == "items" \in DOMAIN data /\ Len(data.items) > 0

\* fetchNEAWeather from the arrival of the response on: the state it leaves
\* and whether it throws (it rethrows whatever it catches).
fetchNEAWeather(st, outcome) ==
    IF outcome.kind # "json" \/ outcome.data = Null
    THEN [threw |-> TRUE, st |-> st]
    ELSE LET data == outcome.data
             station == data.metadata.stations[1]
             s1 == IF HasStations(data)
                   THEN [st EXCEPT !.appState.userLocation = station.location]
                   ELSE st
         IN IF HasStations(data) /\ "location" \notin DOMAIN station
            THEN [threw |-> TRUE, st |-> st]
            ELSE IF ~HasItems(data) THEN [threw |-> FALSE, st |-> s1]
            ELSE IF "readings" \notin DOMAIN data.items[1] THEN [threw |-> TRUE, st |-> s1]
            ELSE LET weatherData == neaWeatherData(data.items[1].readings)
                     s2 == [s1 EXCEPT !.appState.weatherData = weatherData]
                     s3 == updateWeatherDisplay(s2, weatherData)
                 IN [threw |-> FALSE,
                     st |-> showNotification(s3, "Weather data loaded from NEA", <<>>, "success")]

NeaDay == [date |-> Str(<<"2", "0", "2", "5", "-", "1", "2", "-", "0", "3">>),
           forecast |-> "Thundery Showers"]

FullDay == [date |-> Str(<<"2", "0", "2", "5", "-", "1", "2", "-", "0", "4">>),
            high |-> 33, low |-> 25, forecast |-> "Cloudy"]

\* Bodies the forecast endpoint may answer with
ForecastBodies ==
    { Null,
      Obj,
      [t |-> "object", items |-> <<Obj>>],
      [t |-> "object", items |-> <<[forecasts |-> [t |-> "array", items |-> <<>>]]>>],
      [t |-> "object", items |-> <<[forecasts |-> [t |-> "array", items |-> <<NeaDay>>]]>>],
      [t |-> "object", items |-> <<[forecasts |-> [t |-> "array", items |-> <<FullDay>>]]>>] }

ForecastOutcomes == Outcomes(ForecastBodies)

\* The response handling throws before anything is stored
ForecastThrows(outcome) == outcome.kind # "json" \/ outcome.data = Null

\* fetchNEAForecast from the arrival of the response on
fetchNEAForecast(st, outcome, t, zone, rnd) ==
    IF ForecastThrows(outcome)
    THEN [threw |-> TRUE, st |-> st]
    ELSE IF ~HasItems(outcome.data) THEN [threw |-> FALSE, st |-> st]
    ELSE LET item == outcome.data.items[1]
             forecast == IF "forecasts" \in DOMAIN item THEN item.forecasts ELSE Undefined
             s1 == [st EXCEPT !.appState.forecastData = forecast]
         IN [threw |-> FALSE, st |-> displayForecast(s1, forecast, t, zone, rnd)]

----------------------------------------------------------------------------
(* Map *)

DateChars(y, m, d) ==
    PadStart(NumberToString(y), 4) \o <<"-">> \o PadStart(NumberToString(m), 2)
        \o <<"-">> \o PadStart(NumberToString(d), 2)

generateMockCleanups ==
    << [id |-> 0, name |-> "Pasir Ris Beach", lat |-> "1.381497", lon |-> "103.955574",
        volunteers |-> 52, date |-> DateChars(2025, 12, 2), isNext |-> TRUE],
       [id |-> 1, name |-> "Malibu Beach Cleanup", lat |-> "34.0195", lon |-> "-118.6814",
        volunteers |-> 42, date |-> DateChars(2025, 12, 5)],
       [id |-> 2, name |-> "Santa Monica Pier Cleanup", lat |-> "34.0195", lon |-> "-118.4965",
        volunteers |-> 28, date |-> DateChars(2025, 12, 6)],
       [id |-> 3, name |-> "Huntington Beach Drive", lat |-> "33.8815", lon |-> "-118.0023",
        volunteers |-> 35, date |-> DateChars(2025, 12, 7)],
       [id |-> 4, name |-> "Laguna Beach Rally", lat |-> "33.5427", lon |-> "-117.7827",
        volunteers |-> 18, date |-> DateChars(2025, 12, 8)] >>

\* The marker element built for one cleanup; its click handler holds the
\* cleanup it was built from.
Marker(cleanup) ==
    [className |-> "map-marker", name |-> cleanup.name, volunteers |-> cleanup.volunteers,
     date |-> cleanup.date, click |-> cleanup.id]

\* appState.cleanups.forEach(... DOM.mapMarkers.appendChild(marker))
RECURSIVE AppendMarkers(_, _)
AppendMarkers(children, cleanups) ==
    IF cleanups = <<>> THEN children
    ELSE AppendMarkers(Append(children, Marker(Head(cleanups))), Tail(cleanups))

\* Faulty variant: the container is not cleared
KeepMarkers(children) == children

\* DOM.mapMarkers.innerHTML = ''
ClearMarkers(children) == <<>>

\* The cleanup a marker's click listener closes over
CleanupOf(st, marker) ==
    CHOOSE cleanup \in {st.appState.cleanups[i] : i \in DOMAIN st.appState.cleanups} :
        cleanup.id = marker.click

\* Faulty variant: a click adds a volunteer to the event
showCleanupDetailsJoins(st, cleanup) ==
    [showNotification(st, "volunteers joining!", <<cleanup.name, cleanup.volunteers>>, "success")
        EXCEPT !.appState.cleanups[cleanup.id + 1].volunteers = @ + 1]

showCleanupDetails(st, cleanup) ==
    showNotification(st, "volunteers joining!", <<cleanup.name, cleanup.volunteers>>, "success")

updateMapMarkers(st) ==
    [st EXCEPT !.markers = AppendMarkers(ClearMarkers(@), st.appState.cleanups)]

initializeMap(st) ==
    updateMapMarkers([st EXCEPT !.appState.cleanups = generateMockCleanups])

----------------------------------------------------------------------------
(* Location service *)

\* Coordinates a position may carry, in hundredths of a degree
Positions == {[latitude |-> 129, longitude |-> 10385], [latitude |-> 3402, longitude |-> -11849]}

\* The error objects the platform may pass: codes 1..3 are the defined
\* ones; other codes and an error without a code are covered as well.
LocationErrors == {[code |-> c] : c \in 0..4} \cup {[message |-> "failed"]}

\* Faulty variant: the texts of codes 2 and 3 exchanged
errorMessagesSwapped ==
    [c \in 1..3 |-> CASE c = 1 -> "Permission denied. Please enable location access."
                      [] c = 2 -> "Location request timed out."
                      [] c = 3 -> "Location unavailable. Try again."]

errorMessages ==
    [c \in 1..3 |-> CASE c = 1 -> "Permission denied. Please enable location access."
                      [] c = 2 -> "Location unavailable. Try again."
                      [] c = 3 -> "Location request timed out."]

\* Faulty variant: the weather is refreshed after an error as well
handleLocationErrorRefreshes(st, error) ==
    LET known == "code" \in DOMAIN error /\ error.code \in DOMAIN errorMessages
    IN [showNotification(st, IF known THEN errorMessages[error.code] ELSE "Location error",
                         <<>>, "error")
           EXCEPT !.refreshes = @ + 1]

handleLocationError(st, error) ==
    LET known == "code" \in DOMAIN error /\ error.code \in DOMAIN errorMessages
    IN showNotification(st, IF known THEN errorMessages[error.code] ELSE "Location error",
                        <<>>, "error")

\* fetchWeatherForLocation up to its await: one more request in flight
fetchWeatherForLocation(st) == [st EXCEPT !.refreshes = @ + 1]

handleLocationSuccess(st, lat, lon) ==
    LET s1 == showNotification(st, "Found you at", <<lat, lon>>, "success")
        s2 == updateMapMarkers(s1)
    IN fetchWeatherForLocation(s2)

\* Faulty variant: the unsupported branch does not return
handleLocateUserNoReturn(st, supported) ==
    LET s1 == IF ~supported
              THEN showNotification(st, "Geolocation not supported", <<>>, "error")
              ELSE st
    IN [showNotification(s1, "Finding your location...", <<>>, "info")
            EXCEPT !.locPending = @ + 1]

\* handleLocateUser with the geolocation capability present or absent
handleLocateUser(st, supported) ==
    IF ~supported THEN showNotification(st, "Geolocation not supported", <<>>, "error")
    ELSE [showNotification(st, "Finding your location...", <<>>, "info")
            EXCEPT !.locPending = @ + 1]

----------------------------------------------------------------------------
(* Bootstrap *)

\* Faulty variant: the preferences are not loaded at startup
BootOrderNoLoad ==
    <<"setupMobileNavigation", "setupEventListeners",
      "initializeMap", "loadWeatherData", "loadCleanupEvents",
      "setupPerformanceOptimizations", "logAppMetrics">>

BootOrder ==
    <<"setupMobileNavigation", "setupEventListeners", "loadUserPreferences",
      "initializeMap", "loadWeatherData", "loadCleanupEvents",
      "setupPerformanceOptimizations", "logAppMetrics">>

\* Functions the script defines; a call of any other name is a ReferenceError
DefinedFunctions ==
    {"setupMobileNavigation", "setupEventListeners", "loadUserPreferences",
     "initializeMap", "loadWeatherData", "setupPerformanceOptimizations",
     "logAppMetrics"}

\* Faulty variant: both requests are sent at once
loadWeatherDataStartBoth(st) ==
    [showNotification(st, "Loading real-time weather data from NEA...", <<>>, "info")
        EXCEPT !.lwPc = "awaitCurrent", !.requests.current = @ + 1,
               !.requests.forecast = @ + 1]

\* loadWeatherData up to its first await: the notification is shown and
\* the current-conditions request is in flight.
loadWeatherDataStart(st) ==
    [showNotification(st, "Loading real-time weather data from NEA...", <<>>, "info")
        EXCEPT !.lwPc = "awaitCurrent", !.requests.current = @ + 1]

\* loadWeatherData after fetchNEAWeather resolved: fetchNEAForecast is called
\* and its request is in flight.
loadWeatherDataForecast(st) ==
    [st EXCEPT !.lwPc = "awaitForecast", !.requests.forecast = @ + 1]

\* Faulty variant: the catch block asks for the current conditions again
loadWeatherDataCatchRetry(st, t, zone, rnd) ==
    [st EXCEPT !.lwPc = "awaitCurrent", !.requests.current = @ + 1]

\* The catch block of loadWeatherData: the fallback, then the load is over
loadWeatherDataCatch(st, t, zone, rnd) ==
    [loadMockWeatherData(st, t, zone, rnd)
        EXCEPT !.lwPc = "done", !.requests.fallbacks = @ + 1]

\* One call of initializeApp: the state it leaves and whether it throws
BootCall(name, st) ==
    IF name \notin DefinedFunctions THEN [threw |-> TRUE, st |-> st]
    ELSE CASE name = "loadUserPreferences" ->
                LET r == loadUserPreferences(st.storage, st.appState.userPreferences)
                IN [threw |-> r.threw, st |-> [st EXCEPT !.appState.userPreferences = r.prefs]]
           [] name = "initializeMap" -> [threw |-> FALSE, st |-> initializeMap(st)]
           [] name = "loadWeatherData" -> [threw |-> FALSE, st |-> loadWeatherDataStart(st)]
           [] OTHER -> [threw |-> FALSE, st |-> st]

\* initializeApp: the calls in order until one throws
RECURSIVE RunCalls(_, _, _)
RunCalls(calls, st, steps) ==
    IF calls = <<>> THEN [status |-> "returned", st |-> st, steps |-> steps]
    ELSE LET r == BootCall(Head(calls), st)
         IN IF r.threw
            THEN [status |-> "threw", steps |-> steps,
                  st |-> [r.st EXCEPT !.unhandled = @ \cup {"initializeApp"}]]
            ELSE RunCalls(Tail(calls), r.st, Append(steps, Head(calls)))

initializeApp(st) == RunCalls(BootOrder, st, <<>>)

----------------------------------------------------------------------------
(* Initial state *)

\* Preference records a page may have stored: any subset of the fields
StoredRecords ==
    {[k \in ks |-> full[k]] :
        full \in [units : {"metric", "imperial"}, notifications : BOOLEAN, darkMode : BOOLEAN],
        ks \in SUBSET PrefKeys}

StoredValues ==
    {Null, EmptyText, MalformedText, NullText} \cup {JSONstringify(rec) : rec \in StoredRecords}

\* Stored values of the application runs: nothing stored, a malformed
\* text and a record that overrides the units
AppStoredValues == {Null, MalformedText, JSONstringify([units |-> "imperial"])}

AppNow == DaysFromCivil(2025, 12, 31) * MinutesPerDay + 1410

AppTz == 8 * 60

initialAppState ==
    [userLocation |-> Null, weatherData |-> Null, forecastData |-> Null,
     cleanups |-> <<>>, userPreferences |-> DefaultPreferences]

InitPure ==
    /\ emailInput = <<>>
    /\ emailResult = <<>>
    /\ dateInput = Undefined
    /\ dateResult = <<>>

InitApp ==
    /\ appState = initialAppState
    /\ bootStatus = "notStarted"
    /\ bootSteps = <<>>
    /\ markers = <<>>
    /\ weatherDisplay = Null
    /\ forecastGrid = <<>>
    /\ shown = <<>>
    /\ lastHandler = [name |-> "none"]
    /\ lwPc = "idle"
    /\ refreshes = 0
    /\ locPending = 0
    /\ unhandled = {}
    /\ requests = [current |-> 0, forecast |-> 0, fallbacks |-> 0]
    /\ toasts = <<>>
    /\ timers = {}
    /\ elapsed = <<>>
    /\ removals = <<>>
    /\ form = [email |-> <<>>, location |-> <<>>]
    /\ nav = [menu |-> {}, toggle |-> {}]

Init ==
    /\ storage \in AppStoredValues
    /\ now = AppNow
    /\ tz = AppTz
    /\ geolocation \in BOOLEAN
    /\ InitApp
    /\ InitPure

\* Startup from every stored value
InitPrefs ==
    /\ storage \in StoredValues
    /\ now = AppNow
    /\ tz = AppTz
    /\ geolocation \in BOOLEAN
    /\ InitApp
    /\ InitPure

----------------------------------------------------------------------------
(* Actions *)

\* The call of initializeApp has returned
Returned(call) == \E i \in DOMAIN bootSteps : bootSteps[i] = call

Frame == UNCHANGED <<now, tz, geolocation, pureVars, toastVars, form, nav>>

\* DOMContentLoaded: initializeApp runs to its end or to the first throw
InitializeApp ==
    /\ bootStatus = "notStarted"
    /\ LET r == initializeApp(Current)
       IN /\ bootStatus' = r.status
          /\ bootSteps' = r.steps
          /\ Commit(r.st, [name |-> "initializeApp"])
    /\ Frame

\* The startup load's current-conditions request completes
CurrentResponse ==
    /\ lwPc = "awaitCurrent"
    /\ \E outcome \in CurrentOutcomes :
        LET r == fetchNEAWeather(Current, outcome)
            h == [name |-> "loadWeatherData", request |-> "current", outcome |-> outcome]
        IN IF r.threw
           THEN \E rnd \in [1..4 -> HumidityDraws] :
                    Commit(loadWeatherDataCatch(r.st, now, tz, rnd), h)
           ELSE Commit(loadWeatherDataForecast(r.st), h)
    /\ UNCHANGED <<bootStatus, bootSteps>>
    /\ Frame

\* The startup load's forecast request completes
ForecastResponse ==
    /\ lwPc = "awaitForecast"
    /\ \E outcome \in ForecastOutcomes :
        LET h == [name |-> "loadWeatherData", request |-> "forecast", outcome |-> outcome]
        IN IF ForecastThrows(outcome)
           THEN \E rnd \in [1..4 -> HumidityDraws] :
                    Commit(loadWeatherDataCatch(Current, now, tz, rnd), h)
           ELSE \E first \in CardDraws :
                    Commit([fetchNEAForecast(Current, outcome, now, tz,
                                [i \in 1..4 |-> first]).st EXCEPT !.lwPc = "done"], h)
    /\ UNCHANGED <<bootStatus, bootSteps>>
    /\ Frame

\* The request of a fetchWeatherForLocation call completes; nothing awaits
\* or catches the promise of that call.
RefreshResponse ==
    /\ refreshes > 0
    /\ \E outcome \in CurrentOutcomes :
        LET r == fetchNEAWeather(Current, outcome)
            s1 == [r.st EXCEPT !.refreshes = @ - 1]
            h == [name |-> "fetchWeatherForLocation", outcome |-> outcome, threw |-> r.threw]
        IN IF r.threw
           THEN Commit([s1 EXCEPT !.unhandled = @ \cup {"fetchWeatherForLocation"}], h)
           ELSE Commit(s1, h)
    /\ UNCHANGED <<bootStatus, bootSteps>>
    /\ Frame

\* Click on the locate button
LocateUser ==
    /\ bootStatus # "notStarted"
    /\ locPending + refreshes < MaxLocate
    /\ Commit(handleLocateUser(Current, geolocation), [name |-> "handleLocateUser"])
    /\ UNCHANGED <<bootStatus, bootSteps>>
    /\ Frame

\* getCurrentPosition success callback
LocationSuccess ==
    /\ locPending > 0
    /\ \E pos \in Positions :
        LET s1 == [Current EXCEPT !.locPending = @ - 1, !.appState.userLocation = pos]
        IN Commit(handleLocationSuccess(s1, pos.latitude, pos.longitude),
                  [name |-> "handleLocationSuccess", position |-> pos])
    /\ UNCHANGED <<bootStatus, bootSteps>>
    /\ Frame

\* getCurrentPosition error callback
LocationError ==
    /\ locPending > 0
    /\ \E error \in LocationErrors :
        Commit(handleLocationError([Current EXCEPT !.locPending = @ - 1], error),
               [name |-> "handleLocationError", error |-> error])
    /\ UNCHANGED <<bootStatus, bootSteps>>
    /\ Frame

\* Click on a marker of the map
MarkerClick ==
    /\ \E i \in DOMAIN markers :
        Commit(showCleanupDetails(Current, CleanupOf(Current, markers[i])),
               [name |-> "showCleanupDetails", id |-> markers[i].click])
    /\ UNCHANGED <<bootStatus, bootSteps>>
    /\ Frame

Next ==
    \/ InitializeApp
    \/ CurrentResponse
    \/ ForecastResponse
    \/ RefreshResponse
    \/ LocateUser
    \/ LocationSuccess
    \/ LocationError
    \/ MarkerClick

Spec == Init /\ [][Next]_vars

NextPrefs == InitializeApp

SpecPrefs == InitPrefs /\ [][NextPrefs]_vars

----------------------------------------------------------------------------
(* isValidEmail and formatDate on their own: the argument is drawn in the  *)
(* initial state, the action applies the function                          *)

InitFixedApp ==
    /\ storage = Null
    /\ now = AppNow
    /\ geolocation = TRUE
    /\ InitApp

EmailAlphabet == {"a", "b", "@", ".", " "}

EmailStrings == UNION {[1..n -> EmailAlphabet] : n \in 0..MaxEmailLen}

InitEmail ==
    /\ InitFixedApp
    /\ tz = AppTz
    /\ emailInput \in EmailStrings
    /\ emailResult = <<>>
    /\ dateInput = Undefined
    /\ dateResult = <<>>

CallIsValidEmail ==
    /\ emailResult = <<>>
    /\ emailResult' = <<isValidEmail(emailInput)>>
    /\ UNCHANGED <<appVars, emailInput, dateInput, dateResult>>

NextEmail == CallIsValidEmail

SpecEmail == InitEmail /\ [][NextEmail]_vars

DateYears == {1969, 2000, 2024, 2025, 2100}

IsLeapYear(y) == (y % 4 = 0 /\ y % 100 # 0) \/ y % 400 = 0

DaysInMonth(y, m) ==
    IF m = 2 THEN (IF IsLeapYear(y) THEN 29 ELSE 28)
    ELSE IF m \in {4, 6, 9, 11} THEN 30 ELSE 31

ValidDateStrings ==
    {Str(DateChars(c[1], c[2], c[3])) :
        c \in {x \in DateYears \X (1..12) \X (1..31) : x[3] <= DaysInMonth(x[1], x[2])}}

DateTzSamples == {-720, -300, 0, 330, 840}

InitDate ==
    /\ InitFixedApp
    /\ tz \in DateTzSamples
    /\ emailInput = <<>>
    /\ emailResult = <<>>
    /\ dateInput \in {Undefined, Str(<<>>)} \cup ValidDateStrings
    /\ dateResult = <<>>

CallFormatDate ==
    /\ dateResult = <<>>
    /\ dateResult' = <<formatDate(dateInput, tz)>>
    /\ UNCHANGED <<appVars, emailInput, emailResult, dateInput>>

NextDate == CallFormatDate

SpecDate == InitDate /\ [][NextDate]_vars

----------------------------------------------------------------------------
(* Notification lifetime: the elements showNotification inserts and the    *)
(* two timers of each; time passes in ticks of the fade-out delay          *)

MaxShows == 2

NotificationDelayMs == 3000

FadeOutMs == 300

DelayTicks == NotificationDelayMs \div FadeOutMs

FadeTicks == FadeOutMs \div FadeOutMs

ToastIds == 1..MaxShows

\* Calls made to showNotification
ToastCalls ==
    {[message |-> "Weather overlay toggled", type |-> "info"],
     [message |-> "Location error", type |-> "error"]}

\* Faulty variant: one shared timer, a new call cancels the pending one
setTimeoutShared(pending, id, kind, ticks) == {[id |-> id, kind |-> kind, remaining |-> ticks]}

\* setTimeout(callback, delay): one more pending callback
setTimeout(pending, id, kind, ticks) ==
    pending \cup {[id |-> id, kind |-> kind, remaining |-> ticks]}

InDocument(id) == \E i \in DOMAIN toasts : toasts[i].id = id

\* Faulty variant: an element equal to one in the document is not inserted
appendChildOnce(children, element) ==
    IF \E i \in DOMAIN children : children[i].el = element.el THEN children
    ELSE Append(children, element)

\* document.body.appendChild(notification)
appendChild(children, element) == Append(children, element)

\* A call of showNotification: the element is appended to the body and
\* the removal is scheduled.
ShowNotification ==
    /\ Len(elapsed) < MaxShows
    /\ \E call \in ToastCalls :
        LET id == Len(elapsed) + 1
        IN /\ toasts' = appendChild(toasts, [id |-> id, animation |-> "slideIn",
                                             el |-> Notification(call.message, <<>>, call.type)])
           /\ timers' = setTimeout(timers, id, "fade", DelayTicks)
           /\ elapsed' = Append(elapsed, 0)
           /\ removals' = Append(removals, 0)
    /\ UNCHANGED <<storage, appState, bootStatus, bootSteps, markers, weatherDisplay,
                   forecastGrid, shown, lastHandler, lwPc, refreshes, locPending,
                   unhandled, now, tz, geolocation, requests, form, nav, pureVars>>

\* Time passes by one tick while a callback is not yet due
Tick ==
    /\ \E tm \in timers : tm.remaining > 0
    /\ timers' = {[tm EXCEPT !.remaining = IF @ > 0 THEN @ - 1 ELSE 0] : tm \in timers}
    /\ elapsed' = [id \in DOMAIN elapsed |->
                      IF InDocument(id) /\ elapsed[id] < DelayTicks + FadeTicks
                      THEN elapsed[id] + 1 ELSE elapsed[id]]
    /\ UNCHANGED <<toasts, removals>>
    /\ UNCHANGED <<storage, appState, bootStatus, bootSteps, markers, weatherDisplay,
                   forecastGrid, shown, lastHandler, lwPc, refreshes, locPending,
                   unhandled, now, tz, geolocation, requests, form, nav, pureVars>>

\* The 3000 ms callback: the fade-out starts and the removal is scheduled
FadeTimer(id) ==
    /\ [id |-> id, kind |-> "fade", remaining |-> 0] \in timers
    /\ toasts' = [i \in DOMAIN toasts |->
                     IF toasts[i].id = id THEN [toasts[i] EXCEPT !.animation = "slideOut"]
                     ELSE toasts[i]]
    /\ timers' = setTimeout(timers \ {[id |-> id, kind |-> "fade", remaining |-> 0]},
                            id, "remove", FadeTicks)
    /\ UNCHANGED <<elapsed, removals>>
    /\ UNCHANGED <<storage, appState, bootStatus, bootSteps, markers, weatherDisplay,
                   forecastGrid, shown, lastHandler, lwPc, refreshes, locPending,
                   unhandled, now, tz, geolocation, requests, form, nav, pureVars>>

\* The 300 ms callback: notification.remove()
RemoveTimer(id) ==
    /\ [id |-> id, kind |-> "remove", remaining |-> 0] \in timers
    /\ toasts' = SelectSeq(toasts, LAMBDA x : x.id # id)
    /\ timers' = timers \ {[id |-> id, kind |-> "remove", remaining |-> 0]}
    /\ removals' = [removals EXCEPT ![id] = IF InDocument(id) THEN @ + 1 ELSE @]
    /\ UNCHANGED elapsed
    /\ UNCHANGED <<storage, appState, bootStatus, bootSteps, markers, weatherDisplay,
                   forecastGrid, shown, lastHandler, lwPc, refreshes, locPending,
                   unhandled, now, tz, geolocation, requests, form, nav, pureVars>>

InitToast ==
    /\ InitFixedApp
    /\ tz = AppTz
    /\ InitPure

NextToast ==
    \/ ShowNotification
    \/ Tick
    \/ \E id \in ToastIds : FadeTimer(id)
    \/ \E id \in ToastIds : RemoveTimer(id)

\* The event loop runs every callback that is due, and time passes
SpecToast ==
    /\ InitToast
    /\ [][NextToast]_vars
    /\ WF_vars(Tick)
    /\ \A id \in ToastIds : WF_vars(FadeTimer(id)) /\ WF_vars(RemoveTimer(id))

----------------------------------------------------------------------------
(* js/app.js: the weather functions of the earlier script *)

\* The record loadWeatherData of js/app.js fabricates
AppJs_mockWeatherData ==
    [temperature |-> 22 * 10, condition |-> "Sunny", waves |-> "1-1.5m",
     windSpeed |-> 13, humidity |-> 65, uvIndex |-> 7]

\* The weather card of js/app.js: a fixed icon, no UV index and no source
AppJs_updateWeatherDisplay(st, weatherData) ==
    LET metric == st.appState.userPreferences.units = "metric"
    IN [st EXCEPT !.weatherDisplay =
           [icon |-> "sun",
            temp |-> RoundDiv(weatherData.temperature, 10),
            tempUnit |-> IF metric THEN "C" ELSE "F",
            condition |-> weatherData.condition,
            waves |-> weatherData.waves,
            windSpeed |-> weatherData.windSpeed,
            speedUnit |-> IF metric THEN "km/h" ELSE "mph",
            humidity |-> weatherData.humidity]]

AppJs_loadWeatherData(st) ==
    AppJs_updateWeatherDisplay([st EXCEPT !.appState.weatherData = AppJs_mockWeatherData],
                               AppJs_mockWeatherData)

\* (base + Math.random() * span).toFixed(1), base and span in tenths
ToFixed1(base, span, r) ==
    LET tenths == RoundDiv(100 * base + r * span, 100)
    IN Digits[(tenths \div 10) + 1] \o "." \o Digits[(tenths % 10) + 1]

AppJs_Conditions == <<"Sunny", "Partly Cloudy", "Clear">>

\* The draws of one fetchWeatherForLocation call, in call order
AppJs_Draws ==
    [temperature : RandomSamples, condition : RandomSamples, wavesLow : RandomSamples,
     wavesHigh : RandomSamples, windSpeed : RandomSamples, humidity : RandomSamples,
     uvIndex : RandomSamples]

\* The simulated record; the temperature is kept to the tenth below, which
\* leaves its Math.round unchanged
AppJs_randomWeatherData(rnd) ==
    [temperature |-> (100 * 18 + rnd.temperature * 12) \div 10,
     condition |-> AppJs_Conditions[RandomIndex3(rnd.condition) + 1],
     waves |-> ToFixed1(6, 12, rnd.wavesLow) \o "-" \o ToFixed1(12, 12, rnd.wavesHigh) \o "m",
     windSpeed |-> (100 * 8 + rnd.windSpeed * 16) \div 100,
     humidity |-> (100 * 50 + rnd.humidity * 40) \div 100,
     uvIndex |-> (rnd.uvIndex * 11) \div 100]

\* fetchWeatherForLocation of js/app.js: it has no await, so it runs to its
\* end inside the caller
AppJs_fetchWeatherForLocation(st, rnd) ==
    AppJs_updateWeatherDisplay(st, AppJs_randomWeatherData(rnd))

AppJs_handleLocationSuccess(st, lat, lon, rnd) ==
    LET s1 == showNotification(st, "Found you at", <<lat, lon>>, "success")
        s2 == updateMapMarkers(s1)
    IN AppJs_fetchWeatherForLocation(s2, rnd)

AppJs_BootCall(name, st) ==
    IF name = "loadWeatherData" THEN [threw |-> FALSE, st |-> AppJs_loadWeatherData(st)]
    ELSE BootCall(name, st)

RECURSIVE AppJs_RunCalls(_, _, _)
AppJs_RunCalls(calls, st, steps) ==
    IF calls = <<>> THEN [status |-> "returned", st |-> st, steps |-> steps]
    ELSE LET r == AppJs_BootCall(Head(calls), st)
         IN IF r.threw
            THEN [status |-> "threw", steps |-> steps,
                  st |-> [r.st EXCEPT !.unhandled = @ \cup {"initializeApp"}]]
            ELSE AppJs_RunCalls(Tail(calls), r.st, Append(steps, Head(calls)))

AppJs_initializeApp(st) == AppJs_RunCalls(BootOrder, st, <<>>)

AppJs_InitializeApp ==
    /\ bootStatus = "notStarted"
    /\ LET r == AppJs_initializeApp(Current)
       IN /\ bootStatus' = r.status
          /\ bootSteps' = r.steps
          /\ Commit(r.st, [name |-> "initializeApp"])
    /\ Frame

AppJs_LocationSuccess ==
    /\ locPending > 0
    /\ \E pos \in Positions, rnd \in AppJs_Draws :
        LET s1 == [Current EXCEPT !.locPending = @ - 1, !.appState.userLocation = pos]
        IN Commit(AppJs_handleLocationSuccess(s1, pos.latitude, pos.longitude, rnd),
                  [name |-> "handleLocationSuccess", position |-> pos])
    /\ UNCHANGED <<bootStatus, bootSteps>>
    /\ Frame

AppJs_Next ==
    \/ AppJs_InitializeApp
    \/ LocateUser
    \/ AppJs_LocationSuccess
    \/ LocationError

SpecAppJs == Init /\ [][AppJs_Next]_vars

----------------------------------------------------------------------------
(* Preference store on its own: saving, loading again and changing *)

\* Records appState.userPreferences may hold
PreferenceRecords == [units : {"metric", "imperial"}, notifications : BOOLEAN, darkMode : BOOLEAN]

\* A call of saveUserPreferences
SavePreferences ==
    /\ bootStatus # "notStarted"
    /\ Commit([Current EXCEPT !.storage = saveUserPreferences(appState.userPreferences)],
              [name |-> "saveUserPreferences", prefs |-> appState.userPreferences])
    /\ UNCHANGED <<bootStatus, bootSteps>>
    /\ Frame

\* A call of loadUserPreferences on the preferences in memory
LoadPreferences ==
    /\ bootStatus # "notStarted"
    /\ LET r == loadUserPreferences(storage, appState.userPreferences)
           s1 == [Current EXCEPT !.appState.userPreferences = r.prefs]
       IN Commit(IF r.threw THEN [s1 EXCEPT !.unhandled = @ \cup {"loadUserPreferences"}]
                 ELSE s1,
                 [name |-> "loadUserPreferences", threw |-> r.threw,
                  after |-> lastHandler.name])
    /\ UNCHANGED <<bootStatus, bootSteps>>
    /\ Frame

\* The documented way of changing the preferences: assign a record, then
\* save (the documentation shows it with one literal record)
SetPreferences ==
    /\ bootStatus # "notStarted"
    /\ \E record \in PreferenceRecords :
        LET s1 == [Current EXCEPT !.appState.userPreferences = record]
        IN Commit([s1 EXCEPT !.storage = saveUserPreferences(s1.appState.userPreferences)],
                  [name |-> "setPreferences", prefs |-> record])
    /\ UNCHANGED <<bootStatus, bootSteps>>
    /\ Frame

NextSave ==
    \/ InitializeApp
    \/ SavePreferences
    \/ LoadPreferences
    \/ SetPreferences

SpecSave == InitPrefs /\ [][NextSave]_vars

----------------------------------------------------------------------------
(* Mobile navigation: the class lists of the menu and of the toggle button *)

\* classList.toggle(name)
classListToggle(classes, name) ==
    IF name \in classes THEN classes \ {name} ELSE classes \cup {name}

\* classList.remove(name)
classListRemove(classes, name) == classes \ {name}

\* Faulty variant: the button is marked active instead of being toggled
toggleMobileMenuAdd(n) ==
    [menu |-> classListToggle(n.menu, "active"), toggle |-> n.toggle \cup {"active"}]

toggleMobileMenu(n) ==
    [menu |-> classListToggle(n.menu, "active"),
     toggle |-> classListToggle(n.toggle, "active")]

\* The click listener of a nav link
closeMobileMenu(n) ==
    [menu |-> classListRemove(n.menu, "active"),
     toggle |-> classListRemove(n.toggle, "active")]

\* Click on the mobile toggle
ToggleClick ==
    /\ Returned("setupMobileNavigation")
    /\ nav' = toggleMobileMenu(nav)
    /\ lastHandler' = [name |-> "toggleMobileMenu"]
    /\ shown' = <<>>
    /\ UNCHANGED <<storage, appState, bootStatus, bootSteps, markers, weatherDisplay,
                   forecastGrid, lwPc, refreshes, locPending, unhandled, now, tz,
                   geolocation, requests, toastVars, form, pureVars>>

\* Click on a link of the navigation menu
NavLinkClick ==
    /\ Returned("setupMobileNavigation")
    /\ nav' = closeMobileMenu(nav)
    /\ lastHandler' = [name |-> "navLinkClick", open |-> "active" \in nav.menu]
    /\ shown' = <<>>
    /\ UNCHANGED <<storage, appState, bootStatus, bootSteps, markers, weatherDisplay,
                   forecastGrid, lwPc, refreshes, locPending, unhandled, now, tz,
                   geolocation, requests, toastVars, form, pureVars>>

NextNav ==
    \/ InitializeApp
    \/ ToggleClick
    \/ NavLinkClick

SpecNav == InitPrefs /\ [][NextNav]_vars

----------------------------------------------------------------------------
(* Signup form *)

\* form.reset(): the inputs go back to their initial, empty values
EmptyForm == [email |-> <<>>, location |-> <<>>]

\* Faulty variant: the email shape is checked before the presence of the fields
handleSignupSubmitShapeFirst(st, f) ==
    IF ~isValidEmail(f.email)
    THEN [prevented |-> TRUE, form |-> f,
          st |-> showNotification(st, "Please enter a valid email", <<>>, "error")]
    ELSE IF f.email = <<>> \/ f.location = <<>>
    THEN [prevented |-> TRUE, form |-> f,
          st |-> showNotification(st, "Please fill in all fields", <<>>, "error")]
    ELSE [prevented |-> TRUE, form |-> EmptyForm,
          st |-> showNotification(st, "Welcome to ShoreSquad! Check your email at",
                                  f.email, "success")]

\* Faulty variant: a successful signup keeps the location as the user's
handleSignupSubmitKeeps(st, f) ==
    IF f.email = <<>> \/ f.location = <<>>
    THEN [prevented |-> TRUE, form |-> f,
          st |-> showNotification(st, "Please fill in all fields", <<>>, "error")]
    ELSE IF ~isValidEmail(f.email)
    THEN [prevented |-> TRUE, form |-> f,
          st |-> showNotification(st, "Please enter a valid email", <<>>, "error")]
    ELSE [prevented |-> TRUE, form |-> EmptyForm,
          st |-> [showNotification(st, "Welcome to ShoreSquad! Check your email at",
                                   f.email, "success")
                     EXCEPT !.appState.userLocation = Str(f.location)]]

\* handleSignupSubmit on a form holding f: whether the default action was
\* prevented, the form afterwards and the state
handleSignupSubmit(st, f) ==
    IF f.email = <<>> \/ f.location = <<>>
    THEN [prevented |-> TRUE, form |-> f,
          st |-> showNotification(st, "Please fill in all fields", <<>>, "error")]
    ELSE IF ~isValidEmail(f.email)
    THEN [prevented |-> TRUE, form |-> f,
          st |-> showNotification(st, "Please enter a valid email", <<>>, "error")]
    ELSE [prevented |-> TRUE, form |-> EmptyForm,
          st |-> showNotification(st, "Welcome to ShoreSquad! Check your email at",
                                  f.email, "success")]

FormEmails ==
    {<<>>, <<"a">>, <<"a", "@", "b">>, <<"a", "@", "b", ".", "c">>,
     <<"a", " ", "@", "b", ".", "c">>}

FormLocations == {<<>>, <<"x">>, <<" ">>}

\* The user edits the inputs
EditForm ==
    /\ \E e \in FormEmails, l \in FormLocations : form' = [email |-> e, location |-> l]
    /\ form' # form
    /\ UNCHANGED <<storage, appState, bootStatus, bootSteps, markers, weatherDisplay,
                   forecastGrid, shown, lastHandler, lwPc, refreshes, locPending,
                   unhandled, now, tz, geolocation, requests, toastVars, nav, pureVars>>

\* The form's submit event
SubmitForm ==
    /\ bootStatus # "notStarted"
    /\ LET r == handleSignupSubmit(Current, form)
       IN /\ form' = r.form
          /\ Commit(r.st, [name |-> "handleSignupSubmit", email |-> form.email,
                           location |-> form.location, defaultPrevented |-> r.prevented])
    /\ UNCHANGED <<bootStatus, bootSteps, now, tz, geolocation, pureVars, toastVars, nav>>

InitForm ==
    /\ InitFixedApp
    /\ tz = AppTz
    /\ InitPure

NextForm ==
    \/ InitializeApp
    \/ EditForm
    \/ SubmitForm

SpecForm == InitForm /\ [][NextForm]_vars

----------------------------------------------------------------------------
(* Properties *)

Booted == bootStatus # "notStarted"

ClaimedBootSteps ==
    <<"setupMobileNavigation", "setupEventListeners", "loadUserPreferences",
      "initializeMap", "loadWeatherData", "setupPerformanceOptimizations",
      "logAppMetrics">>

IsClaimedBootStep(c) == \E i \in DOMAIN ClaimedBootSteps : ClaimedBootSteps[i] = c


\* C1: once initializeApp has run, all seven bootstrap steps have been
\* performed, in the fixed order, ending with the lazy-image observation and
\* the timing log.
C1_AllStepsReached ==
    Booted => SelectSeq(bootSteps, IsClaimedBootStep) = ClaimedBootSteps

\* C2: with a malformed stored value, loadUserPreferences returns without an
\* exception, the preferences are the defaults, and the map and weather steps
\* after it run.
C2_MalformedTolerated ==
    (Booted /\ storage = MalformedText) =>
        /\ Returned("loadUserPreferences")
        /\ appState.userPreferences = DefaultPreferences
        /\ Returned("initializeMap")
        /\ Returned("loadWeatherData")

StoredHas(k) ==
    /\ storage # Null
    /\ storage.json = "object"
    /\ \E i \in DOMAIN storage.members : storage.members[i][1] = k

StoredValueOf(k) ==
    LET i == CHOOSE j \in DOMAIN storage.members : storage.members[j][1] = k
    IN storage.members[i][2]

\* C3: after loadUserPreferences at startup each preference field is the
\* stored one when the stored record has the field and the built-in default
\* otherwise; with nothing stored the preferences are exactly the defaults.
C3_LoadMergesOverDefaults ==
    Returned("loadUserPreferences") =>
        /\ DOMAIN appState.userPreferences = PrefKeys
        /\ \A k \in PrefKeys :
              appState.userPreferences[k] =
                  IF StoredHas(k) THEN StoredValueOf(k)
                  ELSE [units |-> "metric", notifications |-> TRUE, darkMode |-> FALSE][k]
        /\ (storage = Null => appState.userPreferences = DefaultPreferences)

C3_Witness ==
    /\ Returned("loadUserPreferences")
    /\ storage = ObjectText(<< <<"units", "imperial">>, <<"darkMode", TRUE>> >>)
    /\ appState.userPreferences = [units |-> "imperial", notifications |-> TRUE, darkMode |-> TRUE]

FallbackRecord ==
    [temperature |-> 220, condition |-> "Sunny", waves |-> "1-1.5m", windSpeed |-> 13,
     humidity |-> 65, uvIndex |-> 7, source |-> "Mock"]

FallbackDisplayed ==
    /\ weatherDisplay # Null
    /\ weatherDisplay.temp = 22
    /\ weatherDisplay.source = "Mock"

StartupCurrentDone(kinds) ==
    /\ lastHandler.name = "loadWeatherData"
    /\ lastHandler.request = "current"
    /\ lastHandler.outcome.kind \in kinds

\* C4: when the current-conditions fetch of the startup load fails with a
\* network error, loadWeatherData finishes with the fallback record in
\* appState.weatherData, temperature 22 and source 'Mock' displayed.
C4_NetworkFailureFallback ==
    StartupCurrentDone({"network"}) =>
        /\ lwPc = "done"
        /\ appState.weatherData = FallbackRecord
        /\ FallbackDisplayed

C4_Witness ==
    /\ StartupCurrentDone({"network"})
    /\ lwPc = "done"
    /\ weatherDisplay # Null
    /\ weatherDisplay.temp = 22

\* The body lacks the expected items or their readings
LacksReadings(data) ==
    \/ data = Null
    \/ "items" \notin DOMAIN data
    \/ Len(data.items) = 0
    \/ "readings" \notin DOMAIN data.items[1]

\* C5: a network failure, a non-success status and a malformed payload,
\* including a JSON body without the expected items or readings, all end the
\* startup load of the current conditions with the fallback record stored and
\* displayed.
C5_FailuresCollapse ==
    (/\ StartupCurrentDone({"network", "http", "badjson", "json"})
     /\ lastHandler.outcome.kind = "json" => LacksReadings(lastHandler.outcome.data))
        => (appState.weatherData = FallbackRecord /\ FallbackDisplayed)

\* C6: a failed weather request, in the startup load or in the refresh after
\* a geolocation success, is followed by a notification and leaves no
\* unhandled rejection.
C6_FailuresNotified ==
    /\ (StartupCurrentDone({"network", "http", "badjson"}) => shown # <<>>)
    /\ ((lastHandler.name = "fetchWeatherForLocation" /\ lastHandler.threw) =>
            (shown # <<>> /\ "fetchWeatherForLocation" \notin unhandled))

\* C7: once initializeMap has run, after every render the marker container
\* holds exactly one node per event of appState.cleanups, in list order.
C7_OneMarkerPerEvent ==
    Returned("initializeMap") =>
        /\ Len(markers) = Len(appState.cleanups)
        /\ \A i \in DOMAIN markers :
              /\ markers[i].click = appState.cleanups[i].id
              /\ markers[i].name = appState.cleanups[i].name
        /\ \A i, j \in DOMAIN markers : markers[i].click = markers[j].click => i = j

C7_Witness ==
    /\ Returned("initializeMap")
    /\ lastHandler.name = "handleLocationSuccess"
    /\ Len(markers) = 5

AtPositions(s) == {k \in DOMAIN s : s[k] = "@"}

\* The shape the claim gives: no whitespace, exactly one '@' with something
\* before it, and after it a '.' that is neither first nor last.
EmailShape(s) ==
    /\ \A k \in DOMAIN s : s[k] \notin {" ", "\t", "\n"}
    /\ Cardinality(AtPositions(s)) = 1
    /\ LET at == CHOOSE k \in AtPositions(s) : TRUE
       IN /\ at > 1
          /\ \E d \in (at + 2)..(Len(s) - 1) : s[d] = "."

\* C8: isValidEmail accepts "a@b.co", rejects "a@b" and "abc", and returns
\* true exactly for the strings of the shape above.
C8_EmailShape ==
    /\ isValidEmail(<<"a", "@", "b", ".", "c", "o">>)
    /\ ~isValidEmail(<<"a", "@", "b">>)
    /\ ~isValidEmail(<<"a", "b", "c">>)
    /\ (emailResult # <<>> => (emailResult[1] <=> EmailShape(emailInput)))

C8_Witness ==
    /\ emailResult = <<TRUE>>
    /\ emailInput = <<"a", "@", ".", ".", "b">>

ClaimedLocationMessage(error) ==
    IF "code" \notin DOMAIN error THEN "Location error"
    ELSE CASE error.code = 1 -> "Permission denied. Please enable location access."
           [] error.code = 2 -> "Location unavailable. Try again."
           [] error.code = 3 -> "Location request timed out."
           [] OTHER -> "Location error"

\* C9: handleLocationError shows exactly one notification, of kind error,
\* with the fixed text of codes 1, 2 and 3 and 'Location error' otherwise.
C9_LocationErrorMessage ==
    lastHandler.name = "handleLocationError" =>
        /\ Len(shown) = 1
        /\ shown[1].className = "notification notification-error"
        /\ shown[1].message = ClaimedLocationMessage(lastHandler.error)

C9_Witness ==
    /\ lastHandler.name = "handleLocationError"
    /\ lastHandler.error = [code |-> 1]
    /\ shown[1].message = "Permission denied. Please enable location access."

\* Day of the week of a calendar date, 0 = Sunday (Sakamoto's method)
CalendarWeekDay(y, m, d) ==
    LET t == <<0, 3, 2, 5, 0, 3, 5, 1, 4, 6, 2, 4>>
        yy == IF m < 3 THEN y - 1 ELSE y
    IN (yy + yy \div 4 - yy \div 100 + yy \div 400 + t[m] + d) % 7

DayDigits(d) ==
    IF d < 10 THEN <<Digits[d + 1]>> ELSE <<Digits[(d \div 10) + 1], Digits[(d % 10) + 1]>>

ClaimedFormat(cs) ==
    LET y == ParseInt(SubSeq(cs, 1, 4))
        m == ParseInt(SubSeq(cs, 6, 7))
        d == ParseInt(SubSeq(cs, 9, 10))
    IN <<days[CalendarWeekDay(y, m, d) + 1], " ">> \o DayDigits(d) \o <<" ", months[m]>>

\* C10: formatDate gives weekday, day without leading zero and month of the
\* calendar date the string names ('2025-12-02' gives 'Tue 2 Dec'), and
\* 'Today' for an empty or missing argument.
C10_FormatDate ==
    /\ ClaimedFormat(DateChars(2025, 12, 2)) = <<"Tue", " ", "2", " ", "Dec">>
    /\ dateResult # <<>> =>
          dateResult[1] = IF dateInput = Undefined \/ dateInput = Str(<<>>) THEN <<"Today">>
                          ELSE ClaimedFormat(dateInput.s)

C10_Witness ==
    /\ dateInput = Str(DateChars(2025, 12, 2))
    /\ tz = -720
    /\ dateResult = << <<"Tue", " ", "2", " ", "Dec">> >>

\* C11: every notification inserted is eventually removed from the
\* document, once, and not before the 3000 ms delay and the 300 ms fade-out
\* have passed; later calls do not cancel or postpone the removal.
C11_NotificationRemovedOnce ==
    /\ \A id \in ToastIds : [](InDocument(id) => <>(~InDocument(id)))
    /\ [][\A id \in DOMAIN elapsed :
             /\ (InDocument(id) /\ ~InDocument(id)') => elapsed[id] >= DelayTicks + FadeTicks
             /\ ~InDocument(id) => ~InDocument(id)'
             /\ removals'[id] <= 1]_vars

C11_Witness ==
    /\ Len(removals) = 2
    /\ removals[1] = 1
    /\ InDocument(2)
    /\ toasts[1].animation = "slideOut"

Submitted == lastHandler.name = "handleSignupSubmit"

ShownOne(message, type) ==
    /\ Len(shown) = 1
    /\ shown[1].message = message
    /\ shown[1].className = "notification notification-" \o type

\* C12: a submit always prevents the default action and shows exactly one
\* notification: 'Please fill in all fields' when the email or the location
\* is empty, otherwise 'Please enter a valid email' when the email fails
\* isValidEmail, both without a reset; otherwise the confirmation, and the
\* form is reset.
C12_SubmitOutcome ==
    [][SubmitForm =>
        /\ lastHandler'.defaultPrevented
        /\ IF form.email = <<>> \/ form.location = <<>>
           THEN /\ ShownOne("Please fill in all fields", "error")'
                /\ form' = form
           ELSE IF ~isValidEmail(form.email)
           THEN /\ ShownOne("Please enter a valid email", "error")'
                /\ form' = form
           ELSE /\ ShownOne("Welcome to ShoreSquad! Check your email at", "success")'
                /\ shown'[1].args = form.email
                /\ form' = [email |-> <<>>, location |-> <<>>]]_vars

C12_Witness ==
    /\ Submitted
    /\ lastHandler.email = <<"a", "@", "b", ".", "c">>
    /\ lastHandler.location = <<" ">>
    /\ form.email = <<>>
    /\ shown[1].background = "#06d6a0"

\* C13: with no geolocation capability a locate click shows exactly the
\* error 'Geolocation not supported' (so no 'Finding your location...'),
\* issues no position request, and leaves appState, the markers and the
\* weather display as they were.
C13_NoGeolocation ==
    [][(LocateUser /\ ~geolocation) =>
        /\ ShownOne("Geolocation not supported", "error")'
        /\ locPending' = locPending
        /\ appState' = appState
        /\ markers' = markers
        /\ weatherDisplay' = weatherDisplay
        /\ forecastGrid' = forecastGrid]_vars

C13_Witness ==
    /\ ~geolocation
    /\ lastHandler.name = "handleLocateUser"
    /\ shown # <<>>
    /\ shown[1].message = "Geolocation not supported"
    /\ locPending = 0
    /\ markers # <<>>

\* C14: appState.userLocation is null until a geolocation success callback
\* has run and afterwards equals the coordinates of the most recent one; no
\* other step (the startup weather load and the refresh included) changes it.
C14_UserLocationIsLastFix ==
    /\ appState.userLocation = Null
    /\ [][IF LocationSuccess
          THEN appState'.userLocation = lastHandler'.position
          ELSE appState'.userLocation = appState.userLocation]_vars

\* The last step was the startup load's catch block, i.e. the fallback
FallbackJustRan ==
    /\ lastHandler.name = "loadWeatherData"
    /\ lwPc = "done"
    /\ requests.fallbacks > 0

\* C15: the fallback is deterministic: running loadMockWeatherData again on
\* the same day gives the weather record and the forecast cards the first
\* run stored and displayed, whatever the random source returns.
C15_FallbackDeterministic ==
    FallbackJustRan =>
        \A rnd \in [1..4 -> HumidityDraws] :
            LET again == loadMockWeatherData(Current, now, tz, rnd)
            IN /\ again.appState.weatherData = appState.weatherData
               /\ again.forecastGrid = forecastGrid

\* C16: once initializeMap has run, appState.cleanups is the fixed list of
\* five events, with the distinct ids 0 to 4 and exactly one event flagged
\* isNext, whatever operation has run since.
C16_CleanupsFixed ==
    Returned("initializeMap") =>
        /\ Len(appState.cleanups) = 5
        /\ \A i \in 1..5 : appState.cleanups[i].id = i - 1
        /\ Cardinality({i \in 1..5 : /\ "isNext" \in DOMAIN appState.cleanups[i]
                                     /\ appState.cleanups[i].isNext}) = 1
        /\ appState.cleanups = generateMockCleanups

C16_Witness ==
    /\ Returned("initializeMap")
    /\ lastHandler.name = "showCleanupDetails"
    /\ lwPc = "done"
    /\ unhandled # {}
    /\ Len(appState.cleanups) = 5

\* C17: the weather display shows the snapshot stored in
\* appState.weatherData: nothing while none is stored, and otherwise the
\* stored condition, waves, wind speed and humidity and the rounded stored
\* temperature.
C17_DisplayIsStoredSnapshot ==
    IF appState.weatherData = Null THEN weatherDisplay = Null
    ELSE /\ weatherDisplay # Null
         /\ weatherDisplay.temp = (IF appState.weatherData.temperature = NaN THEN NaN
                                   ELSE RoundDiv(appState.weatherData.temperature, 10))
         /\ weatherDisplay.condition = appState.weatherData.condition
         /\ weatherDisplay.waves = appState.weatherData.waves
         /\ weatherDisplay.windSpeed = appState.weatherData.windSpeed
         /\ weatherDisplay.humidity = appState.weatherData.humidity

\* C18: saveUserPreferences writes the text of the preferences in memory
\* whatever was stored and leaves the preferences as they are; loading that
\* text, into the same record or into the defaults, gives the saved record
\* again.
C18_SaveLoadRoundTrip ==
    [][/\ SavePreferences =>
            /\ appState' = appState
            /\ StoredHas("units")' /\ StoredHas("notifications")' /\ StoredHas("darkMode")'
            /\ \A from \in {appState.userPreferences,
                            [units |-> "metric", notifications |-> TRUE, darkMode |-> FALSE]} :
                  loadUserPreferences(storage', from) =
                      [threw |-> FALSE, prefs |-> appState.userPreferences]
       /\ (LoadPreferences /\ lastHandler.name = "saveUserPreferences") =>
            appState'.userPreferences = lastHandler.prefs]_vars

C18_Witness ==
    /\ lastHandler.name = "loadUserPreferences"
    /\ lastHandler.after = "saveUserPreferences"
    /\ ~lastHandler.threw
    /\ appState.userPreferences = [units |-> "imperial", notifications |-> FALSE, darkMode |-> TRUE]
    /\ storage = ObjectText(<< <<"units", "imperial">>, <<"notifications", FALSE>>,
                               <<"darkMode", TRUE>> >>)

C20_NoRetry ==
    /\ requests.current <= 1
    /\ requests.forecast <= 1
    /\ requests.fallbacks <= 1
    /\ requests.fallbacks = 1 => lwPc = "done"
    /\ requests.forecast <= requests.current

C20_Witness ==
    /\ requests = [current |-> 1, forecast |-> 1, fallbacks |-> 1]
    /\ lastHandler.name = "loadWeatherData"
    /\ lastHandler.request = "forecast"

\* Identifiers of the notifications shown so far and not yet removed, in
\* the order of their showNotification calls
ShownNotRemoved == SelectSeq([id \in DOMAIN removals |-> id], LAMBDA id : removals[id] = 0)

\* C21: every showNotification call appends one element to those in the
\* document, also when an equal notification is still there; the elements in
\* the document are those shown and not yet removed, in insertion order.
C21_NoQueueNoDedup ==
    /\ []([i \in DOMAIN toasts |-> toasts[i].id] = ShownNotRemoved)
    /\ [][ShowNotification =>
            /\ Len(toasts') = Len(toasts) + 1
            /\ SubSeq(toasts', 1, Len(toasts)) = toasts
            /\ \E call \in ToastCalls :
                  /\ toasts'[Len(toasts')].el.message = call.message
                  /\ toasts'[Len(toasts')].el.className = "notification notification-" \o call.type]_vars

C21_Witness ==
    /\ Len(toasts) = 2
    /\ toasts[1].el = toasts[2].el
    /\ toasts[1].id = 1 /\ toasts[2].id = 2
    /\ toasts[1].animation = "slideOut"

\* No request of any kind has been issued or answered by the step
NoRequestIssued ==
    /\ requests' = requests
    /\ refreshes' = refreshes
    /\ locPending' = locPending
    /\ lwPc' = lwPc

\* C22 as claimed: a submit leaves appState and the storage unchanged, issues
\* no request, and the submitted email is held nowhere once the handler has
\* returned, the notifications it left included.
C22_SubmissionRetainedNowhere ==
    [][SubmitForm =>
        /\ appState' = appState
        /\ storage' = storage
        /\ NoRequestIssued
        /\ form.email # <<>> => \A i \in DOMAIN shown' : shown'[i].args # form.email]_vars

\* C22 as amended: a submit leaves appState and the storage unchanged and
\* issues no request; the submitted location is in no notification, and the
\* submitted email is only in the text of the confirmation of a successful
\* submit; after a successful submit the fields are empty, after a rejected
\* one they keep what was typed.
C22_SubmissionNotStored ==
    [][SubmitForm =>
        /\ appState' = appState
        /\ storage' = storage
        /\ NoRequestIssued
        /\ \A i \in DOMAIN shown' :
              /\ form.location # <<>> => shown'[i].args # form.location
              /\ (form.email # <<>> /\ shown'[i].args = form.email) =>
                    (form.location # <<>> /\ isValidEmail(form.email))
        /\ form' = IF form.email # <<>> /\ form.location # <<>> /\ isValidEmail(form.email)
                   THEN [email |-> <<>>, location |-> <<>>]
                   ELSE form]_vars

C22_Witness ==
    /\ Submitted
    /\ lastHandler.email = <<"a", "@", "b", ".", "c">>
    /\ lastHandler.location = <<"x">>
    /\ shown[1].args = lastHandler.email
    /\ form.location = <<>>
    /\ appState.userLocation = Null

\* The user's local calendar date n days after today, as YYYY-MM-DD
LocalDatePlus(n) ==
    LET c == CivilFromDays(LocalDay(now, tz) + n)
    IN Str(DateChars(c.year, c.month, c.day))

\* C23: the four cards of the fallback forecast are dated today, today + 1,
\* today + 2 and today + 3 of the user's local calendar.
C23_FallbackDatesLocal ==
    FallbackJustRan =>
        /\ Len(forecastGrid) = 4
        /\ \A i \in 1..4 : forecastGrid[i].heading = formatDate(LocalDatePlus(i - 1), tz)

\* The step in which the startup load's current-conditions request completes
CurrentCompletes ==
    /\ lwPc = "awaitCurrent"
    /\ lwPc' # "awaitCurrent"
    /\ lastHandler'.name = "loadWeatherData"
    /\ lastHandler'.request = "current"

\* C24: the startup load sends its two requests one after the other: the
\* forecast request is sent only in the step in which the current-conditions
\* request completes with a success status, never before and never after the
\* load is over; a failed current-conditions request is followed by the
\* fallback and by no forecast request.
C24_RequestsSequential ==
    /\ [](lwPc \in {"idle", "awaitCurrent"} => requests.forecast = 0)
    /\ [][/\ requests'.forecast # requests.forecast =>
                /\ CurrentCompletes
                /\ lastHandler'.outcome.kind = "json"
                /\ requests'.forecast = 1
          /\ (CurrentCompletes /\ lastHandler'.outcome.kind # "json") =>
                /\ requests'.forecast = 0
                /\ requests'.fallbacks = 1
                /\ lwPc' = "done"
                /\ appState'.weatherData.source = "Mock"]_vars

C24_Witness ==
    /\ lastHandler.name = "handleLocateUser"
    /\ lwPc = "done"
    /\ requests = [current |-> 1, forecast |-> 0, fallbacks |-> 1]

HasSource(weatherData, source) == weatherData # Null /\ weatherData.source = source

\* C25: a snapshot taken from a successful current-conditions response is
\* replaced by the fallback record, in appState and on the display, only in a
\* step in which a current-conditions request fails; a failure of the
\* forecast request leaves it in place.
C25_SnapshotNotReplaced ==
    [][(/\ HasSource(appState.weatherData, "NEA")
        /\ \/ HasSource(appState'.weatherData, "Mock")
           \/ HasSource(weatherDisplay', "Mock"))
           => (/\ lastHandler'.name = "loadWeatherData"
               /\ lastHandler'.request = "current"
               /\ fetchNEAWeather(Current, lastHandler'.outcome).threw)]_vars

\* The startup has been through its loadUserPreferences call: the call
\* returned, or it is the call whose exception ended initializeApp
LoadPreferencesEnded ==
    \/ Returned("loadUserPreferences")
    \/ /\ bootStatus = "threw"
       /\ Len(bootSteps) = 2
       /\ bootSteps[2] = "setupEventListeners"

MenuActive == "active" \in nav.menu

ButtonActive == "active" \in nav.toggle

\* C27: the menu is active exactly when the toggle button is; a toggle click
\* flips both, so that two in a row restore them, and a nav-link click leaves
\* both inactive.
C27_MenuFollowsToggle ==
    /\ [](MenuActive <=> ButtonActive)
    /\ [][/\ ToggleClick => (MenuActive' = ~MenuActive /\ ButtonActive' = ~ButtonActive)
          /\ NavLinkClick => (~MenuActive' /\ ~ButtonActive')]_vars

C27_Witness ==
    /\ lastHandler.name = "navLinkClick"
    /\ lastHandler.open
    /\ ~MenuActive
    /\ ~ButtonActive
    /\ bootStatus = "threw"

\* C28: neither the locate click nor the error callback that answers it
\* changes the user location, the weather or forecast data, the markers or
\* the weather display, or issues a weather request; the callback shows one
\* notification.
C28_LocationErrorFrame ==
    [][((LocateUser /\ geolocation) \/ LocationError) =>
        /\ appState' = appState
        /\ markers' = markers
        /\ weatherDisplay' = weatherDisplay
        /\ forecastGrid' = forecastGrid
        /\ requests' = requests
        /\ refreshes' = refreshes
        /\ lwPc' = lwPc
        /\ Len(shown') = 1]_vars

C28_Witness ==
    /\ lastHandler.name = "handleLocationError"
    /\ lastHandler.error = [code |-> 1]
    /\ locPending = 0
    /\ refreshes = 0
    /\ HasSource(appState.weatherData, "NEA")
    /\ markers # <<>>

\* C29: forecast cards on display are those of the array held in
\* appState.forecastData: the array is there, and the cards are its first
\* four days, each with the day's condition and high when the day has them.
C29_ForecastFromState ==
    forecastGrid # <<>> =>
        /\ appState.forecastData.t = "array"
        /\ Len(forecastGrid) = Len(Slice4(appState.forecastData.items))
        /\ \A i \in DOMAIN forecastGrid :
              LET day == appState.forecastData.items[i]
              IN /\ "forecast" \in DOMAIN day => forecastGrid[i].condition = day.forecast
                 /\ HasTruthy(day, "high") => forecastGrid[i].temp = day.high

====
